---- MODULE Spec2Model ----
(***************************************************************************)
(* Model of main.py (Buddy Tales voice-over production tool):              *)
(* generate_voice_over, generate_audio_for_line, initialize_vertex_ai and  *)
(* clear_generated_files.  Strings are sequences of one-character strings, *)
(* so that strip, split, re.sub and splitlines are computed, not assumed.  *)
(***************************************************************************)
EXTENDS Integers, Sequences, FiniteSets, TLC

VARIABLES
    k_service,                   \* is the K_SERVICE environment variable set (line 28)
    pc,                          \* per run: position in generate_voice_over
    file,                        \* per run: script_file_obj
    lines,                       \* per run: script_content.splitlines()
    i,                           \* per run: number of loop iterations done (enumerate index)
    line_processed_count,        \* per run
    audio_files_generated_count, \* per run
    error_summary,               \* per run
    output_html,                 \* per run: the entries appended to output_html
    result,                      \* per run: the value returned by the handler
    init_calls,                  \* per run: calls of initialize_vertex_ai
    provider_calls,              \* per run: calls of from_pretrained and predict
    lookups,                     \* per run: source lines for which CHARACTER_VOICES.get ran
    records,                     \* per run: dialogue records (lines that passed line 85)
    call,                        \* per run: the generate_audio_for_line call in progress
    files,                       \* the content of OUTPUT_DIR: path -> what was written
    dir_exists,                  \* does OUTPUT_DIR exist
    clear_pc,                    \* position in clear_generated_files
    listed,                      \* clear: what os.listdir returned
    listing,                     \* clear: names of the listing not yet visited
    deleted_count,               \* clear: deleted_count
    removed,                     \* clear: files os.remove actually removed
    failed,                      \* clear: files whose os.remove raised
    clear_result,                \* clear: the value returned
    text,                        \* text operations: the input string
    cleaned,                     \* text operations: clean(text)
    recleaned,                   \* text operations: clean(clean(text))
    parsed,                      \* text operations: outcome of one loop iteration on text
    tpc                          \* text operations: position

vars == << k_service, pc, file, lines, i, line_processed_count,
           audio_files_generated_count, error_summary, output_html, result,
           init_calls, provider_calls, lookups, records, call, files,
           dir_exists,
           clear_pc, listed, listing, deleted_count, removed, failed,
           clear_result, text, cleaned, recleaned, parsed, tpc >>

runVars == << pc, file, lines, i, line_processed_count,
              audio_files_generated_count, error_summary, output_html, result,
              init_calls, provider_calls, lookups, records, call >>
clearVars == << clear_pc, listed, listing, deleted_count, removed, failed,
               clear_result >>
textVars == << text, cleaned, recleaned, parsed, tpc >>

None == "None"

-----------------------------------------------------------------------------
(* Bounds *)

MaxLines == 3          \* lines of a script
MaxLen == 5            \* characters of a string given to the text operations
NumRuns == 2           \* batch runs sharing the process
MaxSharedLines == 1    \* lines of a script when runs are concurrent
MaxFiles == 3          \* files in the output directory before a clear

-----------------------------------------------------------------------------
(* Python string operations *)

\* Characters are one-element strings.  The control and Latin-1 characters
\* are written raw; a character the lexer does not accept in a string is
\* written by its code point.
VT == ""
FS == ""
GS == ""
RS == ""
US == ""
NEL == ""
NBSP == " "
LS == "U+2028"
PS == "U+2029"
UnicodeSpaces == {"U+1680", "U+2000", "U+2001", "U+2002", "U+2003", "U+2004",
                  "U+2005", "U+2006", "U+2007", "U+2008", "U+2009", "U+200A",
                  "U+202F", "U+205F", "U+3000"}

\* the characters with str.isspace(): str.strip() removes them, \s matches them
WS == {" ", "\t", "\n", VT, "\f", "\r", FS, GS, RS, US, NEL, NBSP, LS, PS}
          \cup UnicodeSpaces

\* the line boundaries of str.splitlines(); "\r\n" is one boundary
LineBreaks == {"\n", "\r", VT, "\f", FS, GS, RS, NEL, LS, PS}

RECURSIVE LStrip(_)
LStrip(s) == IF s = << >> THEN s
             ELSE IF Head(s) \in WS THEN LStrip(Tail(s)) ELSE s

RECURSIVE RStrip(_)
RStrip(s) == IF s = << >> THEN s
             ELSE IF s[Len(s)] \in WS THEN RStrip(SubSeq(s, 1, Len(s) - 1)) ELSE s

\* str.strip()
Strip(s) == RStrip(LStrip(s))

\* index of the first c in s, 0 when there is none
FirstIndex(s, c) ==
    IF \E k \in 1..Len(s) : s[k] = c
    THEN CHOOSE k \in 1..Len(s) : s[k] = c /\ \A j \in 1..(k - 1) : s[j] # c
    ELSE 0

\* line.split(':', 1)
SplitColon(line) ==
    LET k == FirstIndex(line, ":")
    IN  IF k = 0 THEN << line >>
        ELSE << SubSeq(line, 1, k - 1), SubSeq(line, k + 1, Len(line)) >>

\* end of the shortest match of \[.*?\] starting at s[1] = "[": the nearest "]"
\* with no newline before it ("." does not match a newline); 0 when no match
NoteEnd(s) ==
    LET k == FirstIndex(s, "]")
        n == FirstIndex(s, "\n")
    IN  IF k = 0 \/ (n # 0 /\ n < k) THEN 0 ELSE k

\* a plausible bug: re.sub(..., count=1), only the first note is removed
RECURSIVE RemoveFirstNote(_)
RemoveFirstNote(s) ==
    IF s = << >> THEN s
    ELSE IF Head(s) = "[" /\ NoteEnd(s) # 0
         THEN SubSeq(s, NoteEnd(s) + 1, Len(s))
         ELSE << Head(s) >> \o RemoveFirstNote(Tail(s))

\* re.sub(r'\[.*?\]', '', s): every leftmost shortest match, left to right
RECURSIVE RemoveNotes(_)
RemoveNotes(s) ==
    IF s = << >> THEN s
    ELSE IF Head(s) = "[" /\ NoteEnd(s) # 0
         THEN RemoveNotes(SubSeq(s, NoteEnd(s) + 1, Len(s)))
         ELSE << Head(s) >> \o RemoveNotes(Tail(s))

\* re.sub(r'\s+', ' ', s)
RECURSIVE CollapseWS(_)
CollapseWS(s) ==
    IF s = << >> THEN s
    ELSE IF Head(s) \in WS THEN << " " >> \o CollapseWS(LStrip(s))
         ELSE << Head(s) >> \o CollapseWS(Tail(s))

\* lines 89-90: cleaned_dialogue
Clean(s) == CollapseWS(Strip(RemoveNotes(s)))

RECURSIVE SplitFrom(_, _)
SplitFrom(s, cur) ==
    IF s = << >> THEN (IF cur = << >> THEN << >> ELSE << cur >>)
    ELSE IF Head(s) = "\r" /\ Len(s) >= 2 /\ s[2] = "\n"
         THEN << cur >> \o SplitFrom(Tail(Tail(s)), << >>)
    ELSE IF Head(s) \in LineBreaks
         THEN << cur >> \o SplitFrom(Tail(s), << >>)
    ELSE SplitFrom(Tail(s), Append(cur, Head(s)))

\* str.splitlines()
SplitLines(s) == SplitFrom(s, << >>)

UpperCase == << "A", "B", "C", "D", "E", "F", "G", "H", "I", "J", "K", "L", "M",
                "N", "O", "P", "Q", "R", "S", "T", "U", "V", "W", "X", "Y", "Z" >>
LowerCase == << "a", "b", "c", "d", "e", "f", "g", "h", "i", "j", "k", "l", "m",
                "n", "o", "p", "q", "r", "s", "t", "u", "v", "w", "x", "y", "z" >>

LowerChar(c) == IF \E k \in 1..Len(UpperCase) : UpperCase[k] = c
                THEN LowerCase[CHOOSE k \in 1..Len(UpperCase) : UpperCase[k] = c]
                ELSE c

\* str.lower()
Lower(s) == [k \in 1..Len(s) |-> LowerChar(s[k])]

\* str.endswith(suffix)
EndsWith(s, suffix) ==
    /\ Len(s) >= Len(suffix)
    /\ SubSeq(s, Len(s) - Len(suffix) + 1, Len(s)) = suffix

Digits == << "0", "1", "2", "3", "4", "5", "6", "7", "8", "9" >>

RECURSIVE Decimal(_)
Decimal(n) == IF n < 10 THEN << Digits[n + 1] >>
              ELSE Decimal(n \div 10) \o << Digits[(n % 10) + 1] >>

RECURSIVE PadLeft(_, _)
PadLeft(s, w) == IF Len(s) >= w THEN s ELSE PadLeft(<< "0" >> \o s, w)

\* f"{n:03d}"
Pad3(n) == PadLeft(Decimal(n), 3)

-----------------------------------------------------------------------------
(* Configuration, lines 16-32 *)

Krishna == << "K", "r", "i", "s", "h", "n", "a" >>
Radha == << "R", "a", "d", "h", "a" >>
Ganesha == << "G", "a", "n", "e", "s", "h", "a" >>
Narrator == << "N", "a", "r", "r", "a", "t", "o", "r" >>
Friend1 == << "F", "r", "i", "e", "n", "d", "1" >>
Friend2 == << "F", "r", "i", "e", "n", "d", "2" >>

CHARACTER_VOICES ==
    (Krishna :> "text-to-speech-en-in-standard-c") @@
    (Radha :> "text-to-speech-en-in-wavenet-d") @@
    (Ganesha :> "text-to-speech-en-us-wavenet-e") @@
    (Narrator :> "text-to-speech-en-us-wavenet-f") @@
    (Friend1 :> "text-to-speech-en-us-standard-c") @@
    (Friend2 :> "text-to-speech-en-au-wavenet-b")

\* CHARACTER_VOICES.get(character_name)
VoiceOf(character_name) ==
    IF character_name \in DOMAIN CHARACTER_VOICES
    THEN CHARACTER_VOICES[character_name] ELSE None

OUTPUT_DIR == IF k_service THEN "/tmp/voice_overs" ELSE "voice_overs"

Runs == 1..NumRuns

-----------------------------------------------------------------------------
(* generate_voice_over: the pieces of one loop iteration, lines 80-102 *)

\* a plausible bug: the line is tested before it is trimmed
NonBlankUntrimmed(raw) == raw # << >>

\* lines 81-82: line = line.strip(); if not line: continue
NonBlank(raw) == Strip(raw) # << >>

\* a plausible bug: the dialogue part is not tested
FormatErrorNameOnly(parts) ==
    Len(parts) < 2 \/ Strip(parts[1]) = << >>

\* line 85
FormatError(parts) ==
    Len(parts) < 2 \/ Strip(parts[1]) = << >> \/ Strip(parts[2]) = << >>

\* line 86
FormatErrorEntry(idx, line) ==
    [line |-> idx + 1, kind |-> "Format Error", detail |-> line]

\* line 93
NotConfiguredEntry(idx, character_name) ==
    [line |-> idx + 1, kind |-> "not configured", detail |-> character_name]

\* a plausible bug: the entry carries the enumerate index, not the line number
LineErrorEntryZeroBased(idx, character_name, error_message) ==
    [line |-> idx, kind |-> error_message, detail |-> character_name]

\* line 102
LineErrorEntry(idx, character_name, error_message) ==
    [line |-> idx + 1, kind |-> error_message, detail |-> character_name]

\* a plausible bug: the index is the raw counter before the increment
FilenameZeroBased(count, character_name) ==
    << OUTPUT_DIR, "/" >> \o Pad3(count - 1) \o << "_" >> \o character_name
        \o << ".", "m", "p", "3" >>

\* line 95: os.path.join(OUTPUT_DIR, f"{line_processed_count:03d}_{character_name}.mp3")
Filename(count, character_name) ==
    << OUTPUT_DIR, "/" >> \o Pad3(count) \o << "_" >> \o character_name
        \o << ".", "m", "p", "3" >>

\* what the provider and the file system do during one call: each of
\* from_pretrained (56), predict (57), open (58) and write (59) returns or
\* raises, and a write (or the close that flushes it) that raises has put
\* none or some of the bytes into the file
Plans == {"pretrained_raises", "predict_raises", "open_raises", "write_raises",
          "write_raises_partway", "ok"}

Failed(loaded, predicted, f) ==
    [success |-> FALSE, error_message |-> "API Error", loaded |-> loaded,
     predicted |-> predicted, file |-> f]

\* a plausible bug: the empty text is not rejected before the provider call
GenerateAudioUnchecked(character_name, voice_model_name, dialogue_text, output_filename, plan) ==
    CASE plan = "pretrained_raises" -> Failed(TRUE, FALSE, "none")
      [] plan = "predict_raises" -> Failed(TRUE, TRUE, "none")
      [] plan = "open_raises" -> Failed(TRUE, TRUE, "none")
      [] plan = "write_raises" -> Failed(TRUE, TRUE, "truncated")
      [] plan = "write_raises_partway" -> Failed(TRUE, TRUE, "partial")
      [] OTHER -> [success |-> TRUE, error_message |-> "", loaded |-> TRUE,
                   predicted |-> TRUE, file |-> "written"]

\* lines 51-63 under a plan: the value returned, whether from_pretrained and
\* predict were called, and what became of the file at output_filename
GenerateAudioForLine(character_name, voice_model_name, dialogue_text, output_filename, plan) ==
    IF dialogue_text = << >>
    THEN [success |-> FALSE,
          error_message |-> "No dialogue text remaining after removing brackets.",
          loaded |-> FALSE, predicted |-> FALSE, file |-> "none"]
    ELSE CASE plan = "pretrained_raises" -> Failed(TRUE, FALSE, "none")
           [] plan = "predict_raises" -> Failed(TRUE, TRUE, "none")
           [] plan = "open_raises" -> Failed(TRUE, TRUE, "none")
           [] plan = "write_raises" -> Failed(TRUE, TRUE, "truncated")
           [] plan = "write_raises_partway" -> Failed(TRUE, TRUE, "partial")
           [] OTHER -> [success |-> TRUE, error_message |-> "", loaded |-> TRUE,
                        predicted |-> TRUE, file |-> "written"]

\* what an iteration that produces nothing leaves
NoEffect(count) ==
    [count |-> count, errors |-> << >>, lookup |-> FALSE, record |-> << >>,
     request |-> << >>]

\* lines 81-96: one iteration of the loop on the raw line at enumerate index
\* idx, with line_processed_count = count before it, up to the call of
\* generate_audio_for_line (request) or to the continue
LineOutcome(raw, idx, count) ==
    LET line == Strip(raw)
        parts == SplitColon(line)
        n == count + 1
    IN  IF ~NonBlank(raw) THEN NoEffect(count)
        ELSE IF FormatError(parts)
        THEN [NoEffect(n) EXCEPT !.errors = << FormatErrorEntry(idx, line) >>]
        ELSE
        LET character_name == Strip(parts[1])
            original_dialogue == Strip(parts[2])
            cleaned_dialogue == Clean(original_dialogue)
            voice_model_name == VoiceOf(character_name)
            rec == [line |-> idx + 1, character_name |-> character_name,
                    original_dialogue |-> original_dialogue,
                    cleaned_dialogue |-> cleaned_dialogue]
        IN  IF voice_model_name = None
            THEN [NoEffect(n) EXCEPT
                    !.errors = << NotConfiguredEntry(idx, character_name) >>,
                    !.lookup = TRUE, !.record = << rec >>]
            ELSE [NoEffect(n) EXCEPT
                    !.lookup = TRUE, !.record = << rec >>,
                    !.request = << [line |-> idx + 1,
                                    filename |-> Filename(n, character_name),
                                    character_name |-> character_name,
                                    voice |-> voice_model_name,
                                    text |-> cleaned_dialogue,
                                    original_dialogue |-> original_dialogue] >>]

-----------------------------------------------------------------------------
(* Inputs *)

RECURSIVE JoinLines(_)
JoinLines(ls) == IF ls = << >> THEN << >>
                 ELSE IF Len(ls) = 1 THEN ls[1]
                 ELSE ls[1] \o << "\n" >> \o JoinLines(Tail(ls))

Strings(alphabet, n) == UNION {[1..k -> alphabet] : k \in 0..n}

LineValid == Krishna \o << ":", " ", "h", "i" >>
LineBlank == << " ", "\t" >>
LineNoColon == << "o", "o", "p", "s" >>
LineZed == << "Z", "e", "d", ":", " ", "h", "e", "l", "l", "o" >>
LineSigh == Krishna \o << ":", " ", "[", "s", "i", "g", "h", "]" >>
LineNotes == << " " >> \o Radha \o << " ", ":", "a", " ", "[", "x", "]", " ", "b", ":", "c", " " >>
LineLowerCase == << "k", "r", "i", "s", "h", "n", "a", ":", " ", "h", "i" >>
LineNbsp == << NBSP, US, " " >>
LineNbspDialogue == Krishna \o << ":", NBSP >>

ScriptLines == {LineValid, LineBlank, LineNoColon, LineZed, LineSigh, LineNotes}
SharedLines == {LineValid, LineNoColon}

NameTxt == << "s", ".", "t", "x", "t" >>
NameUpper == << "S", ".", "T", "X", "T" >>
NameMp3 == << "s", ".", "m", "p", "3" >>

NoFile == [given |-> FALSE, name |-> << >>, decodable |-> FALSE, content |-> << >>]

TextFile(name, content) ==
    [given |-> TRUE, name |-> name, decodable |-> TRUE, content |-> content]

\* scripts that use the other line boundaries and whitespace characters
ScriptCrLf == LineValid \o << "\r", "\n" >> \o LineValid \o << "\n" >>
ScriptBoundaries ==
    LineValid \o << VT >> \o LineNbsp \o << NEL >> \o LineNoColon \o << FS >>
        \o LineNbspDialogue \o << LS >> \o LineNotes
ScriptCase == LineSigh \o << "\n" >> \o LineLowerCase \o << "\n" >> \o LineValid

Uploads ==
    {NoFile}
    \cup {TextFile(NameMp3, LineValid)}
    \cup {[given |-> TRUE, name |-> NameTxt, decodable |-> FALSE, content |-> << >>]}
    \cup {TextFile(NameUpper, ScriptCrLf), TextFile(NameTxt, ScriptBoundaries),
          TextFile(NameTxt, ScriptCase)}
    \cup {TextFile(NameTxt, JoinLines(ls)) : ls \in Strings(ScriptLines, MaxLines)}

SharedUploads ==
    {NoFile} \cup
    {TextFile(NameTxt, JoinLines(ls)) : ls \in Strings(SharedLines, MaxSharedLines)}

ProjectIds == {None, "", "my-project"}

TextAlphabet == {":", "[", "]", " ", "\t", NBSP, "a"}

-----------------------------------------------------------------------------
(* The output directory *)

NoFiles == [p \in {} |-> 0]

\* a file left in the directory by an earlier process (line 32 keeps it)
Stale == [inode |-> << 0, 0 >>, writer |-> 0, line |-> 0, data |-> "whole"]

\* line 58, open(output_filename, "wb"): an existing file is truncated, a
\* missing one is created; writer and line say whose bytes (or truncation)
\* the file holds
Opened(fs, r, c) ==
    [p \in DOMAIN fs \cup {c.filename} |->
        IF p = c.filename
        THEN [inode |-> IF p \in DOMAIN fs THEN fs[p].inode ELSE << r, c.line >>,
              writer |-> r, line |-> c.line, data |-> "empty"]
        ELSE fs[p]]

\* line 59, audio_file.write(...) through the handle opened at line 58: the
\* bytes go to that file from offset 0.  When the file was removed meanwhile
\* the directory does not change; when another handle wrote meanwhile the
\* result is this run's bytes, followed by the rest of the other's if longer
Written(fs, r, c) ==
    IF c.filename \notin DOMAIN fs \/ fs[c.filename].inode # c.inode
    THEN {fs}
    ELSE {[fs EXCEPT ![c.filename] =
              [inode |-> c.inode, writer |-> r, line |-> c.line, data |-> d]] :
          d \in IF fs[c.filename].data = "empty" THEN {"whole"}
                ELSE {"whole", "mixed"}}

\* line 59 when the write raises after some of the bytes reached the file:
\* the file holds the beginning of this run's bytes, followed by the rest of
\* what another handle wrote meanwhile if that was longer
PartlyWritten(fs, r, c) ==
    IF c.filename \notin DOMAIN fs \/ fs[c.filename].inode # c.inode
    THEN {fs}
    ELSE {[fs EXCEPT ![c.filename] =
              [inode |-> c.inode, writer |-> r, line |-> c.line, data |-> d]] :
          d \in IF fs[c.filename].data = "empty" THEN {"partial"}
                ELSE {"partial", "mixed"}}

-----------------------------------------------------------------------------
(* generate_voice_over as a state machine, one instance per run *)

NoResult == [kind |-> "none", message |-> "", processed |-> 0, generated |-> 0,
             errors |-> << >>, html |-> << >>, button |-> FALSE]

NoCall == [line |-> 0, filename |-> << >>, character_name |-> << >>,
           voice |-> None, text |-> << >>, original_dialogue |-> << >>,
           inode |-> << 0, 0 >>, success |-> FALSE, error_message |-> ""]

\* lines 67, 68, 72, 78: return <message>, "", gr.Button(visible=False)
Fatal(message) == [NoResult EXCEPT !.kind = "fatal", !.message = message]

\* a plausible bug: the test of the name is dropped
ValidateInputAnyName(f) ==
    IF ~f.given THEN "Please upload a script file." ELSE "ok"

\* lines 67-68
ValidateInput(f) ==
    IF ~f.given THEN "Please upload a script file."
    ELSE IF ~EndsWith(Lower(f.name), << ".", "t", "x", "t" >>)
    THEN "Invalid File Type: Please upload a .txt file."
    ELSE "ok"

\* lines 37-49: the exception initialize_vertex_ai raises, or "ok"
InitializeVertexAI(project_id, init_raises) ==
    IF project_id = None \/ project_id = "" THEN "Configuration Error"
    ELSE IF init_raises THEN "Vertex AI Init Failed"
    ELSE "ok"

\* the handler is invoked with the uploaded file
Click(r, uploads) ==
    /\ pc[r] = "Idle"
    /\ \E f \in uploads : file' = [file EXCEPT ![r] = f]
    /\ pc' = [pc EXCEPT ![r] = "Validating"]
    /\ UNCHANGED << k_service, lines, i, line_processed_count,
                    audio_files_generated_count, error_summary, output_html,
                    result, init_calls, provider_calls, lookups, records, call,
                    files, dir_exists, clearVars, textVars >>

\* lines 67-68
Validate(r) ==
    /\ pc[r] = "Validating"
    /\ LET v == ValidateInput(file[r])
       IN  IF v = "ok"
           THEN /\ pc' = [pc EXCEPT ![r] = "Initializing"]
                /\ UNCHANGED result
           ELSE /\ pc' = [pc EXCEPT ![r] = "Done"]
                /\ result' = [result EXCEPT ![r] = Fatal(v)]
    /\ UNCHANGED << k_service, file, lines, i, line_processed_count,
                    audio_files_generated_count, error_summary, output_html,
                    init_calls, provider_calls, lookups, records, call,
                    files, dir_exists, clearVars, textVars >>

\* lines 69-74
InitProvider(r) ==
    /\ pc[r] = "Initializing"
    /\ \E project_id \in ProjectIds, init_raises \in BOOLEAN :
         LET v == InitializeVertexAI(project_id, init_raises)
         IN  /\ init_calls' = [init_calls EXCEPT ![r] =
                    Append(@, [project_id |-> project_id, init_raises |-> init_raises])]
             /\ IF v = "ok"
                THEN /\ pc' = [pc EXCEPT ![r] = "Reading"]
                     /\ UNCHANGED result
                ELSE /\ pc' = [pc EXCEPT ![r] = "Done"]
                     /\ result' = [result EXCEPT ![r] = Fatal(v)]
    /\ UNCHANGED << k_service, file, lines, i, line_processed_count,
                    audio_files_generated_count, error_summary, output_html,
                    provider_calls, lookups, records, call,
                    files, dir_exists, clearVars, textVars >>

\* lines 75-80: read, decode, splitlines
ReadScript(r) ==
    /\ pc[r] = "Reading"
    /\ IF file[r].decodable
       THEN /\ lines' = [lines EXCEPT ![r] = SplitLines(file[r].content)]
            /\ pc' = [pc EXCEPT ![r] = "Processing"]
            /\ UNCHANGED result
       ELSE /\ pc' = [pc EXCEPT ![r] = "Done"]
            /\ result' = [result EXCEPT ![r] = Fatal("Error reading script file")]
            /\ UNCHANGED lines
    /\ UNCHANGED << k_service, file, i, line_processed_count,
                    audio_files_generated_count, error_summary, output_html,
                    init_calls, provider_calls, lookups, records, call,
                    files, dir_exists, clearVars, textVars >>

\* lines 80-96: one iteration of the loop up to its continue, or up to the
\* call of generate_audio_for_line
ProcessLine(r) ==
    /\ pc[r] = "Processing"
    /\ i[r] < Len(lines[r])
    /\ LET o == LineOutcome(lines[r][i[r] + 1], i[r], line_processed_count[r])
       IN  /\ line_processed_count' = [line_processed_count EXCEPT ![r] = o.count]
           /\ error_summary' = [error_summary EXCEPT ![r] = @ \o o.errors]
           /\ lookups' = [lookups EXCEPT ![r] =
                             IF o.lookup THEN Append(@, i[r] + 1) ELSE @]
           /\ records' = [records EXCEPT ![r] = @ \o o.record]
           /\ IF o.request = << >>
              THEN /\ i' = [i EXCEPT ![r] = @ + 1]
                   /\ UNCHANGED << pc, call >>
              ELSE /\ call' = [call EXCEPT ![r] =
                        [line |-> o.request[1].line,
                         filename |-> o.request[1].filename,
                         character_name |-> o.request[1].character_name,
                         voice |-> o.request[1].voice,
                         text |-> o.request[1].text,
                         original_dialogue |-> o.request[1].original_dialogue,
                         inode |-> << 0, 0 >>, success |-> FALSE,
                         error_message |-> ""]]
                   /\ pc' = [pc EXCEPT ![r] = "Calling"]
                   /\ UNCHANGED i
    /\ UNCHANGED << k_service, file, lines, audio_files_generated_count,
                    output_html, result, init_calls, provider_calls,
                    files, dir_exists, clearVars, textVars >>

\* the call returns False with this message (lines 54, 63)
ReturnFalse(r, error_message) ==
    /\ call' = [call EXCEPT ![r].success = FALSE,
                            ![r].error_message = error_message]
    /\ pc' = [pc EXCEPT ![r] = "Recording"]

\* the entry of the provider log for a call made on behalf of c
ProviderEntry(c, op) ==
    [line |-> c.line, op |-> op, voice |-> c.voice, text |-> c.text]

\* lines 53-56: the test of the text and TextToSpeechModel.from_pretrained
LoadModel(r) ==
    /\ pc[r] = "Calling"
    /\ \E plan \in {"pretrained_raises", "ok"} :
         LET c == call[r]
             g == GenerateAudioForLine(c.character_name, c.voice, c.text,
                                       c.filename, plan)
         IN  /\ provider_calls' = [provider_calls EXCEPT ![r] =
                    IF g.loaded THEN Append(@, ProviderEntry(c, "from_pretrained"))
                    ELSE @]
             /\ IF g.loaded /\ plan = "ok"
                THEN /\ pc' = [pc EXCEPT ![r] = "Predicting"]
                     /\ UNCHANGED call
                ELSE ReturnFalse(r, g.error_message)
    /\ UNCHANGED << k_service, file, lines, i, line_processed_count,
                    audio_files_generated_count, error_summary, output_html,
                    result, init_calls, lookups, records,
                    files, dir_exists, clearVars, textVars >>

\* line 57: model.predict(dialogue_text)
Predict(r) ==
    /\ pc[r] = "Predicting"
    /\ \E plan \in {"predict_raises", "ok"} :
         LET c == call[r]
             g == GenerateAudioForLine(c.character_name, c.voice, c.text,
                                       c.filename, plan)
         IN  /\ provider_calls' = [provider_calls EXCEPT ![r] =
                    IF g.predicted THEN Append(@, ProviderEntry(c, "predict"))
                    ELSE @]
             /\ IF g.success
                THEN /\ pc' = [pc EXCEPT ![r] = "Opening"]
                     /\ UNCHANGED call
                ELSE ReturnFalse(r, g.error_message)
    /\ UNCHANGED << k_service, file, lines, i, line_processed_count,
                    audio_files_generated_count, error_summary, output_html,
                    result, init_calls, lookups, records,
                    files, dir_exists, clearVars, textVars >>

\* line 58: open(output_filename, "wb")
OpenFile(r) ==
    /\ pc[r] = "Opening"
    /\ \E plan \in {"open_raises", "ok"} :
         LET c == call[r]
             g == GenerateAudioForLine(c.character_name, c.voice, c.text,
                                       c.filename, plan)
         IN  /\ dir_exists \/ plan = "open_raises"
             /\ IF g.file = "none"
                THEN /\ ReturnFalse(r, g.error_message)
                     /\ UNCHANGED files
                ELSE /\ files' = Opened(files, r, c)
                     /\ call' = [call EXCEPT ![r].inode = files'[c.filename].inode]
                     /\ pc' = [pc EXCEPT ![r] = "Writing"]
    /\ UNCHANGED << k_service, file, lines, i, line_processed_count,
                    audio_files_generated_count, error_summary, output_html,
                    result, init_calls, provider_calls, lookups, records,
                    dir_exists, clearVars, textVars >>

\* lines 59-60: write, close, return True; or the except clause of line 61
WriteFile(r) ==
    /\ pc[r] = "Writing"
    /\ \E plan \in {"write_raises", "write_raises_partway", "ok"} :
         LET c == call[r]
             g == GenerateAudioForLine(c.character_name, c.voice, c.text,
                                       c.filename, plan)
         IN  IF g.success
             THEN /\ files' \in Written(files, r, c)
                  /\ call' = [call EXCEPT ![r].success = TRUE]
                  /\ pc' = [pc EXCEPT ![r] = "Recording"]
             ELSE /\ ReturnFalse(r, g.error_message)
                  /\ IF g.file = "partial"
                     THEN files' \in PartlyWritten(files, r, c)
                     ELSE UNCHANGED files
    /\ UNCHANGED << k_service, file, lines, i, line_processed_count,
                    audio_files_generated_count, error_summary, output_html,
                    result, init_calls, provider_calls, lookups, records,
                    dir_exists, clearVars, textVars >>

\* lines 97-102: the counters, the display and the error list
RecordOutcome(r) ==
    /\ pc[r] = "Recording"
    /\ LET c == call[r]
       IN  IF c.success
           THEN /\ audio_files_generated_count' =
                      [audio_files_generated_count EXCEPT ![r] = @ + 1]
                /\ output_html' = [output_html EXCEPT ![r] =
                      Append(@, [line |-> c.line, filename |-> c.filename,
                                 character_name |-> c.character_name,
                                 original_dialogue |-> c.original_dialogue])]
                /\ UNCHANGED error_summary
           ELSE /\ error_summary' = [error_summary EXCEPT ![r] =
                      Append(@, LineErrorEntry(i[r], c.character_name,
                                               c.error_message))]
                /\ UNCHANGED << audio_files_generated_count, output_html >>
    /\ call' = [call EXCEPT ![r] = NoCall]
    /\ i' = [i EXCEPT ![r] = @ + 1]
    /\ pc' = [pc EXCEPT ![r] = "Processing"]
    /\ UNCHANGED << k_service, file, lines, line_processed_count, result,
                    init_calls, provider_calls, lookups, records,
                    files, dir_exists, clearVars, textVars >>

\* lines 104-107
Finish(r) ==
    /\ pc[r] = "Processing"
    /\ i[r] = Len(lines[r])
    /\ result' = [result EXCEPT ![r] =
          [kind |-> "summary", message |-> "Processed",
           processed |-> line_processed_count[r],
           generated |-> audio_files_generated_count[r],
           errors |-> error_summary[r],
           html |-> output_html[r],
           button |-> audio_files_generated_count[r] > 0]]
    /\ pc' = [pc EXCEPT ![r] = "Done"]
    /\ UNCHANGED << k_service, file, lines, i, line_processed_count,
                    audio_files_generated_count, error_summary, output_html,
                    init_calls, provider_calls, lookups, records, call,
                    files, dir_exists, clearVars, textVars >>

RunInit ==
    /\ pc = [r \in Runs |-> "Idle"]
    /\ file = [r \in Runs |-> NoFile]
    /\ lines = [r \in Runs |-> << >>]
    /\ i = [r \in Runs |-> 0]
    /\ line_processed_count = [r \in Runs |-> 0]
    /\ audio_files_generated_count = [r \in Runs |-> 0]
    /\ error_summary = [r \in Runs |-> << >>]
    /\ output_html = [r \in Runs |-> << >>]
    /\ result = [r \in Runs |-> NoResult]
    /\ init_calls = [r \in Runs |-> << >>]
    /\ provider_calls = [r \in Runs |-> << >>]
    /\ lookups = [r \in Runs |-> << >>]
    /\ records = [r \in Runs |-> << >>]
    /\ call = [r \in Runs |-> NoCall]

ClearInit ==
    /\ clear_pc = "idle"
    /\ listed = {}
    /\ listing = {}
    /\ deleted_count = 0
    /\ removed = {}
    /\ failed = {}
    /\ clear_result = [kind |-> "none", count |-> << >>]

TextInit ==
    /\ text = << >>
    /\ cleaned = << >>
    /\ recleaned = << >>
    /\ parsed = [idx |-> 0, outcome |-> NoEffect(0)]
    /\ tpc = "off"

\* what the directory may hold when the process starts: line 32 creates it
\* when it is missing and keeps what it holds
StartFiles == {{}, {Filename(1, Krishna)}}

\* after the module is loaded: the output directory exists
Init ==
    /\ k_service \in BOOLEAN
    /\ RunInit
    /\ \E present \in StartFiles : files = [p \in present |-> Stale]
    /\ dir_exists = TRUE
    /\ ClearInit
    /\ TextInit

\* the run of a process that serves one batch at a time
SingleRun == {1}

Next ==
    \E r \in SingleRun :
        \/ Click(r, Uploads)
        \/ Validate(r)
        \/ InitProvider(r)
        \/ ReadScript(r)
        \/ ProcessLine(r)
        \/ LoadModel(r)
        \/ Predict(r)
        \/ OpenFile(r)
        \/ WriteFile(r)
        \/ RecordOutcome(r)
        \/ Finish(r)

Spec == Init /\ [][Next]_vars

-----------------------------------------------------------------------------
(* clear_generated_files, lines 109-116 *)

\* a plausible bug: the count is incremented before os.remove is tried
RemoveCountEager(count, remove_raises) == count + 1

\* lines 114-115: deleted_count after one os.remove
RemoveCount(count, remove_raises) ==
    IF remove_raises THEN count ELSE count + 1

\* line 112, or line 113: os.listdir(OUTPUT_DIR)
ClearStart ==
    /\ clear_pc = "idle"
    /\ IF ~dir_exists
       THEN /\ clear_result' = [kind |-> "Directory does not exist.", count |-> << >>]
            /\ clear_pc' = "done"
            /\ UNCHANGED << listed, listing >>
       ELSE /\ listed' = DOMAIN files
            /\ listing' = DOMAIN files
            /\ clear_pc' = "sweeping"
            /\ UNCHANGED clear_result
    /\ UNCHANGED << k_service, runVars, files, dir_exists, deleted_count,
                    removed, failed, textVars >>

\* lines 113-115: one iteration, os.remove returns or raises (it raises when
\* the file is no longer there)
ClearRemove ==
    /\ clear_pc = "sweeping"
    /\ \E f \in listing, remove_raises \in BOOLEAN :
         /\ f \in DOMAIN files \/ remove_raises
         /\ listing' = listing \ {f}
         /\ deleted_count' = RemoveCount(deleted_count, remove_raises)
         /\ IF remove_raises
            THEN /\ failed' = failed \cup {f}
                 /\ UNCHANGED << files, removed >>
            ELSE /\ removed' = removed \cup {f}
                 /\ files' = [p \in DOMAIN files \ {f} |-> files[p]]
                 /\ UNCHANGED failed
    /\ UNCHANGED << k_service, runVars, dir_exists, clear_pc, listed,
                    clear_result, textVars >>

\* line 116
ClearFinish ==
    /\ clear_pc = "sweeping"
    /\ listing = {}
    /\ clear_result' = [kind |-> "Cleared", count |-> << deleted_count >>]
    /\ clear_pc' = "done"
    /\ UNCHANGED << k_service, runVars, files, dir_exists, listed, listing,
                    deleted_count, removed, failed, textVars >>

\* files a batch run may have left in the directory
LeftOver == {Filename(n, Krishna) : n \in 1..MaxFiles}

\* the clear button is pressed with the directory in any state: missing,
\* empty, or holding files
InitClear ==
    /\ k_service \in BOOLEAN
    /\ RunInit
    /\ dir_exists \in BOOLEAN
    /\ \E present \in SUBSET LeftOver :
         /\ dir_exists \/ present = {}
         /\ files = [p \in present |-> Stale]
    /\ ClearInit
    /\ TextInit

NextClear == ClearStart \/ ClearRemove \/ ClearFinish

SpecClear == InitClear /\ [][NextClear]_vars

-----------------------------------------------------------------------------
(* Batch runs and a clear in the same process *)

\* the handlers run in worker threads: the runs and the clear interleave at
\* every call that waits on the provider or touches the directory
NextShared ==
    \/ \E r \in Runs :
        \/ Click(r, SharedUploads)
        \/ Validate(r)
        \/ InitProvider(r)
        \/ ReadScript(r)
        \/ ProcessLine(r)
        \/ LoadModel(r)
        \/ Predict(r)
        \/ OpenFile(r)
        \/ WriteFile(r)
        \/ RecordOutcome(r)
        \/ Finish(r)
    \/ ClearStart
    \/ ClearRemove
    \/ ClearFinish

SpecShared == Init /\ [][NextShared]_vars

-----------------------------------------------------------------------------
(* The text operations on every short string *)

InitText ==
    /\ k_service = FALSE
    /\ RunInit
    /\ files = NoFiles
    /\ dir_exists = TRUE
    /\ ClearInit
    /\ text \in Strings(TextAlphabet, MaxLen)
    /\ cleaned = << >>
    /\ recleaned = << >>
    /\ parsed = [idx |-> 0, outcome |-> NoEffect(0)]
    /\ tpc = "input"

\* lines 89-90 applied to text
CleanOnce ==
    /\ tpc = "input"
    /\ cleaned' = Clean(text)
    /\ tpc' = "cleaned"
    /\ UNCHANGED << k_service, runVars, files, dir_exists, clearVars, text,
                    recleaned, parsed >>

\* lines 89-90 applied to the cleaned text
CleanAgain ==
    /\ tpc = "cleaned"
    /\ recleaned' = Clean(cleaned)
    /\ tpc' = "recleaned"
    /\ UNCHANGED << k_service, runVars, files, dir_exists, clearVars, text,
                    cleaned, parsed >>

\* lines 81-96 applied to text as line idx + 1 of a script whose earlier
\* lines were all processed
ParseLine ==
    /\ tpc = "input"
    /\ \E idx \in 0..(MaxLines - 1) :
         parsed' = [idx |-> idx, outcome |-> LineOutcome(text, idx, idx)]
    /\ tpc' = "parsed"
    /\ UNCHANGED << k_service, runVars, files, dir_exists, clearVars, text,
                    cleaned, recleaned >>

NextText == CleanOnce \/ CleanAgain \/ ParseLine

SpecText == InitText /\ [][NextText]_vars

-----------------------------------------------------------------------------
(* Properties *)

ErrorsAt(r, k) == {m \in 1..Len(error_summary[r]) : error_summary[r][m].line = k}
ArtifactsAt(r, k) == {m \in 1..Len(output_html[r]) : output_html[r][m].line = k}
CallsAt(r, k) == {m \in 1..Len(provider_calls[r]) : provider_calls[r][m].line = k}
FilesOf(r, k) == {p \in DOMAIN files : files[p].writer = r /\ files[p].line = k}

\* a line that is non-empty after trimming
HasText(raw) == \E k \in 1..Len(raw) : raw[k] \notin WS
NonBlankUpTo(r, n) == {k \in 1..n : HasText(lines[r][k])}

ErrorKinds == {"Format Error", "not configured", "API Error",
               "No dialogue text remaining after removing brackets."}

ArtifactPath(n, name) ==
    << OUTPUT_DIR, "/" >> \o Pad3(n) \o << "_" >> \o name \o << ".", "m", "p", "3" >>

\* the run is inside a call of generate_audio_for_line or about to record it
InCall(r) ==
    pc[r] \in {"Calling", "Predicting", "Opening", "Writing", "Recording"}

\* C1: a failure on one line never aborts the batch.  In a run that reached
\* line processing, every non-blank line visited so far has exactly one
\* outcome, one generated artifact (counted and reported) or
\* one error entry tagged with its 1-based line number, a blank line has
\* none, and the counters satisfy processed = generated + errors (plus the
\* line whose call is in progress); the summary is only returned after the
\* last line, with those counters, and until then the loop is at a line of the
\* script or at its end.  In a process with this run alone the file of a
\* reported artifact is whole, and a line that ended in an error entry has a
\* file only when its write raised: empty, or holding part of the bytes.
C1_OneOutcomePerLine ==
    \A r \in Runs :
        /\ \A k \in 1..i[r] :
             IF HasText(lines[r][k])
             THEN /\ Cardinality(ErrorsAt(r, k)) + Cardinality(ArtifactsAt(r, k)) = 1
                  /\ \A m \in ArtifactsAt(r, k) :
                        /\ FilesOf(r, k) = {output_html[r][m].filename}
                        /\ files[output_html[r][m].filename].data = "whole"
                  /\ \A m \in ErrorsAt(r, k) : \A p \in FilesOf(r, k) :
                        /\ files[p].data \in {"empty", "partial"}
                        /\ error_summary[r][m].kind = "API Error"
                        /\ Cardinality(CallsAt(r, k)) = 2
             ELSE ErrorsAt(r, k) = {} /\ ArtifactsAt(r, k) = {} /\ FilesOf(r, k) = {}
        /\ \A m \in 1..Len(error_summary[r]) :
             /\ error_summary[r][m].line \in 1..i[r]
             /\ error_summary[r][m].kind \in ErrorKinds
        /\ \A m \in 1..Len(output_html[r]) : output_html[r][m].line \in 1..i[r]
        /\ audio_files_generated_count[r] = Len(output_html[r])
        /\ line_processed_count[r] =
               audio_files_generated_count[r] + Len(error_summary[r])
                   + (IF InCall(r) THEN 1 ELSE 0)
        /\ result[r].kind = "summary" =>
               /\ i[r] = Len(lines[r])
               /\ result[r].processed = result[r].generated + Len(result[r].errors)
               /\ result[r].processed = line_processed_count[r]
               /\ result[r].errors = error_summary[r]
        /\ pc[r] = "Processing" => i[r] <= Len(lines[r])
        /\ InCall(r) => i[r] < Len(lines[r]) /\ call[r].line = i[r] + 1

\* C1 witness: a finished batch in which a write that raised on one line left
\* a file with part of the bytes and an error entry, and a later line was
\* generated
C1_Witness ==
    \E r \in Runs :
        /\ result[r].kind = "summary"
        /\ \E m \in 1..Len(result[r].errors), a \in 1..Len(result[r].html) :
             /\ result[r].errors[m].kind = "API Error"
             /\ result[r].errors[m].line < result[r].html[a].line
             /\ \E p \in FilesOf(r, result[r].errors[m].line) :
                   files[p].data = "partial"

\* the batch-level conditions of a run, from its inputs
InputRejected(r) ==
    \/ ~file[r].given
    \/ file[r].name \notin {NameTxt, NameUpper}
InitFailed(r) ==
    /\ init_calls[r] # << >>
    /\ LET c == init_calls[r][Len(init_calls[r])]
       IN  c.project_id \in {None, ""} \/ c.init_raises

NoLineWork(r) ==
    /\ lines[r] = << >> /\ i[r] = 0 /\ line_processed_count[r] = 0
    /\ records[r] = << >> /\ lookups[r] = << >> /\ provider_calls[r] = << >>
    /\ error_summary[r] = << >> /\ output_html[r] = << >>
    /\ call[r] = NoCall
    /\ \A p \in DOMAIN files : files[p].writer # r

\* C2: batch-level errors stop the run before any line is attempted.  With no
\* file, a name not ending in .txt (in any letter case), or a failed provider
\* initialization, the run goes to Done with a single message and an empty
\* results display; no line is parsed, no voice looked up, no synthesis call
\* made, no error entry produced and no file opened or written.  When the
\* input is rejected, initialize_vertex_ai is never called.
C2_FatalStopsBeforeLines ==
    \A r \in Runs :
        /\ (pc[r] # "Idle" /\ InputRejected(r)) =>
              /\ pc[r] \in {"Validating", "Done"}
              /\ init_calls[r] = << >>
              /\ NoLineWork(r)
              /\ pc[r] = "Done" =>
                    /\ result[r].kind = "fatal"
                    /\ result[r].message \in {"Please upload a script file.",
                           "Invalid File Type: Please upload a .txt file."}
                    /\ result[r].html = << >> /\ ~result[r].button
        /\ InitFailed(r) =>
              /\ pc[r] = "Done"
              /\ Len(init_calls[r]) = 1
              /\ NoLineWork(r)
              /\ result[r].kind = "fatal"
              /\ result[r].message \in {"Configuration Error", "Vertex AI Init Failed"}
              /\ result[r].html = << >> /\ ~result[r].button

\* C2 witness: a .txt script with a dialogue line whose run ended at a
\* provider initialization that raised, beside a file an earlier process left
C2_Witness ==
    \E r \in Runs :
        /\ pc[r] = "Done"
        /\ file[r].given /\ file[r].name = NameTxt
        /\ file[r].content = LineValid
        /\ InitFailed(r)
        /\ init_calls[r][1].project_id = "my-project"
        /\ result[r].message = "Vertex AI Init Failed"
        /\ DOMAIN files # {}

\* C3: once line processing is reached, the processed count is the number of
\* lines that are non-empty after trimming among those visited (with the line
\* being synthesized), and in the summary among all lines of the script; no
\* error entry is for a blank line.
C3_ProcessedIsNonBlank ==
    \A r \in Runs :
        /\ pc[r] = "Processing" =>
              line_processed_count[r] = Cardinality(NonBlankUpTo(r, i[r]))
        /\ InCall(r) =>
              /\ HasText(lines[r][i[r] + 1])
              /\ line_processed_count[r] = Cardinality(NonBlankUpTo(r, i[r] + 1))
        /\ result[r].kind = "summary" =>
              /\ lines[r] = SplitLines(file[r].content)
              /\ result[r].processed = Cardinality(NonBlankUpTo(r, Len(lines[r])))
              /\ \A m \in 1..Len(result[r].errors) :
                    HasText(lines[r][result[r].errors[m].line])

\* C3 witness: a summary for the script whose five lines end at a vertical
\* tab, a next-line character, a file separator and a line separator, with a
\* line of no-break and unit-separator spaces, failed lines and generated lines
C3_Witness ==
    \E r \in Runs :
        /\ result[r].kind = "summary"
        /\ file[r].content = ScriptBoundaries
        /\ Len(lines[r]) = 5
        /\ lines[r][2] = LineNbsp
        /\ result[r].processed = 4
        /\ Len(result[r].errors) = 2
        /\ result[r].generated = 2

\* C4: the index in an artifact's file name is the number of non-blank lines
\* up to and including its line, not the source line number.  In the script
\* valid / malformed / valid the artifacts are 001 and 003; a blank line
\* before a valid line leaves its index at 001.
C4_IndexIsProcessedCount ==
    \A r \in Runs :
        /\ \A m \in 1..Len(output_html[r]) :
              LET a == output_html[r][m]
              IN  a.filename =
                     ArtifactPath(Cardinality(NonBlankUpTo(r, a.line)), a.character_name)
        /\ InCall(r) =>
              call[r].filename =
                  ArtifactPath(Cardinality(NonBlankUpTo(r, call[r].line)),
                               call[r].character_name)
        /\ (lines[r] = << LineValid, LineNoColon, LineValid >>
                /\ result[r].kind = "summary" /\ result[r].generated = 2) =>
              /\ result[r].html[1].filename =
                    << OUTPUT_DIR, "/", "0", "0", "1", "_" >> \o Krishna
                        \o << ".", "m", "p", "3" >>
              /\ result[r].html[2].filename =
                    << OUTPUT_DIR, "/", "0", "0", "3", "_" >> \o Krishna
                        \o << ".", "m", "p", "3" >>
        /\ (lines[r] = << LineBlank, LineValid >>
                /\ result[r].kind = "summary" /\ result[r].generated = 1) =>
              result[r].html[1].filename =
                    << OUTPUT_DIR, "/", "0", "0", "1", "_" >> \o Krishna
                        \o << ".", "m", "p", "3" >>

\* C4 witness: the three-line script of the claim, both valid lines generated
C4_Witness ==
    \E r \in Runs :
        /\ lines[r] = << LineValid, LineNoColon, LineValid >>
        /\ result[r].kind = "summary"
        /\ result[r].generated = 2
        /\ Len(result[r].errors) = 1
        /\ \E p \in FilesOf(r, 3) : files[p].data = "whole"

\* C5 as stated: the indices of the artifacts of a run are 1..generated_count
\* in processing order, whatever lines were skipped in between.
C5_IndicesConsecutive ==
    \A r \in Runs :
        \A m \in 1..Len(output_html[r]) :
            output_html[r][m].filename =
                ArtifactPath(m, output_html[r][m].character_name)

\* C5 amended: blank lines create no gap, but every line that ends in an error
\* entry consumes an index: the index of the m-th artifact is m plus the number
\* of error entries recorded for earlier lines, so the indices are strictly
\* increasing and are 1..generated_count exactly when no earlier line failed.
C5_IndexSkipsFailedLines ==
    \A r \in Runs :
        \A m \in 1..Len(output_html[r]) :
            LET a == output_html[r][m]
                e == Cardinality({n \in 1..Len(error_summary[r]) :
                                     error_summary[r][n].line < a.line})
            IN  a.filename = ArtifactPath(m + e, a.character_name)

\* C5 witness: an artifact generated after a blank line and a failed line
C5_Witness ==
    \E r \in Runs :
        \E m \in 1..Len(output_html[r]) :
            LET a == output_html[r][m]
            IN  /\ \E k \in 1..(a.line - 1) : ~HasText(lines[r][k])
                /\ \E n \in 1..Len(error_summary[r]) : error_summary[r][n].line < a.line
                /\ a.line = 3

Configured == {Krishna, Radha, Ganesha, Narrator, Friend1, Friend2}

\* C6: the provider is invoked only for a configured character and a non-empty
\* cleaned text.  A dialogue record whose character is not a key of the
\* registry, or whose cleaned text is empty, has no call of from_pretrained or
\* predict and no file opened, has exactly one error entry once its iteration
\* ended, and the loop goes on to the next line.
C6_ProviderOnlyForSpeakable ==
    \A r \in Runs :
        /\ \A m \in 1..Len(provider_calls[r]) :
              LET c == provider_calls[r][m]
              IN  /\ c.text # << >>
                  /\ \E n \in 1..Len(records[r]) :
                        /\ records[r][n].line = c.line
                        /\ records[r][n].character_name \in Configured
                        /\ records[r][n].cleaned_dialogue = c.text
        /\ \A n \in 1..Len(records[r]) :
              LET d == records[r][n]
              IN  (d.character_name \notin Configured \/ d.cleaned_dialogue = << >>) =>
                     /\ CallsAt(r, d.line) = {}
                     /\ ArtifactsAt(r, d.line) = {}
                     /\ FilesOf(r, d.line) = {}
                     /\ IF i[r] >= d.line
                        THEN Cardinality(ErrorsAt(r, d.line)) = 1
                        ELSE /\ pc[r] \in {"Calling", "Recording"}
                             /\ d.character_name \in Configured
                             /\ ErrorsAt(r, d.line) = {}
                     /\ pc[r] = "Done" => i[r] = Len(lines[r])
        /\ \A k \in 1..i[r] :
              lines[r][k] \in {LineSigh, LineLowerCase, LineZed, LineNbspDialogue} =>
                 /\ CallsAt(r, k) = {} /\ ArtifactsAt(r, k) = {}
                 /\ Cardinality(ErrorsAt(r, k)) = 1
        /\ \A k \in 1..i[r] :
              lines[r][k] \in {LineSigh, LineLowerCase, LineZed} =>
                 \E n \in 1..Len(records[r]) : records[r][n].line = k

\* C6 witness: "Krishna: [sigh]" and "krishna: hi" were skipped with an error
\* each and the later line was sent to from_pretrained and predict
C6_Witness ==
    \E r \in Runs :
        /\ lines[r] = << LineSigh, LineLowerCase, LineValid >>
        /\ result[r].kind = "summary"
        /\ Len(result[r].errors) = 2
        /\ result[r].errors[1].kind =
               "No dialogue text remaining after removing brackets."
        /\ result[r].errors[2].kind = "not configured"
        /\ result[r].generated = 1
        /\ Len(provider_calls[r]) = 2
        /\ Cardinality(CallsAt(r, 3)) = 2

\* C7: cleaning is idempotent, clean(clean(s)) = clean(s), for every
\* single-line string s over brackets, whitespace, colons and letters.
C7_CleanIdempotent ==
    tpc = "recleaned" => recleaned = cleaned

\* C7 witness: a string with nested brackets, cleaned twice
C7_Witness ==
    /\ tpc = "recleaned"
    /\ text = << "[", "[", "a", "]", "]" >>
    /\ cleaned = << "]" >>

\* the line splits at its first colon into two parts with text
WellFormed(line) ==
    \E k \in 1..Len(line) :
        /\ line[k] = ":"
        /\ \A j \in 1..(k - 1) : line[j] # ":"
        /\ \E j \in 1..(k - 1) : line[j] \notin WS
        /\ \E j \in (k + 1)..Len(line) : line[j] \notin WS

\* C8: parsing is a strict dichotomy over non-blank lines.  A line with text
\* on both sides of its first colon gives exactly one dialogue record and no
\* format error; any other non-blank line gives exactly one Format Error with
\* the 1-based line number and no record, and no voice lookup or synthesis.
C8_ParseDichotomy ==
    (tpc = "parsed" /\ HasText(text)) =>
        LET o == parsed.outcome
            formatErrors == {m \in 1..Len(o.errors) : o.errors[m].kind = "Format Error"}
        IN  IF WellFormed(text)
            THEN /\ Len(o.record) = 1
                 /\ formatErrors = {}
                 /\ o.record[1].line = parsed.idx + 1
                 /\ o.record[1].character_name # << >>
                 /\ o.record[1].original_dialogue # << >>
                 /\ \A j \in 1..Len(o.record[1].character_name) :
                       o.record[1].character_name[j] # ":"
                 /\ o.lookup
            ELSE /\ o.record = << >>
                 /\ Len(o.errors) = 1
                 /\ o.errors[1].kind = "Format Error"
                 /\ o.errors[1].line = parsed.idx + 1
                 /\ ~o.lookup
                 /\ o.request = << >>

\* C8 witness: a line whose dialogue part is a no-break space, on the third
\* source line
C8_Witness ==
    /\ tpc = "parsed"
    /\ text = << " ", "a", ":", NBSP, "\t" >>
    /\ parsed.idx = 2
    /\ Len(parsed.outcome.errors) = 1

\* C9: clear_generated_files on a missing directory deletes nothing, reports
\* no deletion and returns; on an empty directory it reports 0; in general the
\* count it reports is the number of files it removed, and every listed file
\* was tried whether or not an earlier removal failed.
C9_ClearCounts ==
    /\ deleted_count = Cardinality(removed)
    /\ removed \cap failed = {}
    /\ clear_pc = "done" =>
          /\ ~dir_exists =>
                /\ clear_result = [kind |-> "Directory does not exist.", count |-> << >>]
                /\ removed = {} /\ deleted_count = 0
          /\ dir_exists =>
                /\ clear_result = [kind |-> "Cleared", count |-> << Cardinality(removed) >>]
                /\ removed \cup failed = listed
                /\ DOMAIN files = failed
          /\ (dir_exists /\ listed = {}) => clear_result.count = << 0 >>
    /\ clear_pc # "done" => ENABLED NextClear

\* C9 witness: a sweep in which one removal failed and a later one succeeded
C9_Witness ==
    /\ clear_pc = "done"
    /\ Cardinality(failed) = 1
    /\ Cardinality(removed) = 2
    /\ clear_result.count = << 2 >>

\* C10 as stated: no two runs write to the same artifact path, and a file at
\* a path a run reported as generated holds what that run wrote, whole.
C10_RunsNeverShareAPath ==
    \A r \in Runs :
        \A m \in 1..Len(output_html[r]) :
            LET p == output_html[r][m].filename
            IN  /\ \A q \in Runs \ {r} :
                      /\ \A n \in 1..Len(output_html[q]) :
                            output_html[q][n].filename # p
                      /\ pc[q] \in {"Opening", "Writing", "Recording"} =>
                            call[q].filename # p
                /\ p \in DOMAIN files =>
                      files[p].writer = r /\ files[p].data = "whole"

====
